---- MODULE Spec2Model ----
(***************************************************************************)
(* Model of the reactive list containers and the identity cache of         *)
(* mobx-orm (src/src/ObservableList.ts, src/src/AjaxRepository.ts).        *)
(*                                                                         *)
(* PaginatedObservableList is modelled field by field.  Every method is a  *)
(* function from a list state (a record of the object's fields plus the    *)
(* provider calls in flight) to the list state after the call, so that a   *)
(* method that calls another one (reload -> reset, getPageAtIndex ->       *)
(* loadPageAtIndex) is the composition the code performs.  A promise       *)
(* handle is identified with the provider request it belongs to.           *)
(***************************************************************************)
EXTENDS Integers, Sequences, FiniteSets, TLC

\* ------------------------------------------------------------------ bounds
MaxTotal == 1         \* the provider's collection holds 0..MaxTotal items
MaxVersion == 2       \* reload() is called while versionNumber < MaxVersion
MaxCalls == 2         \* provider invocations per behaviour
MaxObjects == 2       \* Model objects per behaviour
MaxRequests == 2      \* transport requests per behaviour
MaxLoads == 3         \* provider invocations of the simple list per behaviour
\* new {cancelled: false}: the first page-load context
InitialContext == 1
\* reset() is called at most once per behaviour
MaxContext == InitialContext + 1
PageSizes == {1, 2}

\* versionNumber: number = 1 (constructor default)
InitialVersion == 1
\* totalLength: number = -1
UnknownLength == -1

\* JS undefined, for number-valued slots (stamps, metadata, error)
Undefined == 0
\* JS undefined, for an item slot
NoItem == <<>>
\* JS undefined, for a promise-valued slot
NoPromise == [pageIndex |-> -1, version |-> 0, context |-> 0]
\* this.loadingPromise (the chain over all page promises; not tracked further)
LoadingPromise == [pageIndex |-> -3, version |-> 0, context |-> 0]
\* a promise made by Promise.resolve(...)
Resolved == [pageIndex |-> -2, version |-> 0, context |-> 0]

Min(a, b) == IF a < b THEN a ELSE b
Max(a, b) == IF a > b THEN a ELSE b

\* ------------------------------------------------------- JS array helpers
\* arrays are sequences; JS index i is TLA+ index i + 1
ArrGet(arr, i, undef) == IF i >= 0 /\ i < Len(arr) THEN arr[i + 1] ELSE undef

ArrSetLength(arr, n, undef) ==
  IF Len(arr) < n
    THEN arr \o [k \in 1..(n - Len(arr)) |-> undef]
    ELSE SubSeq(arr, 1, n)

ArrSet(arr, i, v, undef) ==
  IF i < Len(arr)
    THEN [arr EXCEPT ![i + 1] = v]
    ELSE ArrSetLength(arr, i, undef) \o <<v>>

VARIABLES
  pageSize,                  \* readonly pageSize
  serverLength,              \* provider side: items in the remote collection
  carriesAttributes,         \* provider side: responses carry totalLength, metadata
  items,                     \* the array contents (this[i], this.length)
  itemVersionNumbers,        \* per-slot version stamps
  versionNumber,
  totalLength,
  metadata,
  error,
  isLoading,
  isReloading,
  isFullyLoaded,
  loadedDate,                \* TRUE when set
  fullyLoadedDate,           \* TRUE when set
  loadingPageVersionNumbers,
  pagePromises,
  loadingPageCount,
  pageLoadContext,           \* identity of the current {cancelled: false} object
  inflight,                  \* provider calls not yet completed
  providerCalls              \* history: provider invocations per page index

listVars == <<pageSize, serverLength, carriesAttributes, items, itemVersionNumbers,
              versionNumber, totalLength, metadata, error, isLoading,
              isReloading, isFullyLoaded, loadedDate, fullyLoadedDate,
              loadingPageVersionNumbers, pagePromises, loadingPageCount,
              pageLoadContext, inflight, providerCalls>>

\* AjaxRepository and the Model objects it hands out
VARIABLES
  heap,                      \* the Model objects; a reference is an index
  modelObjectCache,          \* id -> reference of the canonical instance
  requests,                  \* transport requests not yet completed
  requestCount,              \* transport requests issued so far
  failed,                    \* handles of the requests that were rejected
  delivered                  \* the list the last list() call resolved with

repoVars == <<heap, modelObjectCache, requests, requestCount, failed, delivered>>

\* the simple ObservableList and the promises of its loads
VARIABLES
  observableList,            \* the fields of the ObservableList object
  loadPromises               \* loadPromises[h]: the promise load() made for
                             \* the h-th provider call

simpleVars == <<observableList, loadPromises>>

vars == <<listVars, repoVars, simpleVars>>

Ids == {"1", "2"}
NoId == ""                       \* a falsy id
NoRef == 0                       \* JS undefined, for an object reference
NoHandle == 0                    \* JS undefined, for a promise

\* a promise that has not settled, and one that was rejected with a failure
Pending == [state |-> "pending", failure |-> Undefined]
Rejected(failure) == [state |-> "rejected", failure |-> failure]
Fulfilled == [state |-> "fulfilled", failure |-> Undefined]

\* new ObservableList(provider): the field initialisers of BaseObservableList,
\* then load(provider()), whose promise is handle 1
ListConstructed ==
  /\ observableList =
       [items |-> <<>>, isLoading |-> TRUE, isReloading |-> FALSE,
        loadedDate |-> FALSE, isFullyLoaded |-> FALSE, fullyLoadedDate |-> FALSE,
        totalLength |-> UnknownLength, metadata |-> Undefined, error |-> Undefined,
        loadingPromise |-> 1]
  /\ loadPromises = <<Pending>>

\* a repository just constructed
RepoConstructed ==
  /\ heap = <<>>
  /\ modelObjectCache = [id \in Ids |-> NoRef]
  /\ requests = {}
  /\ requestCount = 0
  /\ failed = {}
  /\ delivered = <<>>

\* page indices the provider is asked for
ScanMaxTotal == 3 * MaxTotal + 4
ScanPageSizes == PageSizes \cup {3}
Pages == 0..(ScanMaxTotal + 1)
ReadIndices == 0..MaxTotal

RetItem(v) == [item |-> v, promise |-> NoPromise]
RetPromise(p) == [item |-> NoItem, promise |-> p]

\* the list state as one record; ret is the value the call returns
State ==
  [pageSize |-> pageSize, serverLength |-> serverLength,
   carriesAttributes |-> carriesAttributes, items |-> items,
   itemVersionNumbers |-> itemVersionNumbers,
   versionNumber |-> versionNumber, totalLength |-> totalLength,
   metadata |-> metadata, error |-> error, isLoading |-> isLoading,
   isReloading |-> isReloading, isFullyLoaded |-> isFullyLoaded,
   loadedDate |-> loadedDate, fullyLoadedDate |-> fullyLoadedDate,
   loadingPageVersionNumbers |-> loadingPageVersionNumbers,
   pagePromises |-> pagePromises, loadingPageCount |-> loadingPageCount,
   pageLoadContext |-> pageLoadContext, inflight |-> inflight,
   providerCalls |-> providerCalls, ret |-> RetItem(NoItem)]

Becomes(s) ==
  /\ pageSize' = s.pageSize
  /\ serverLength' = s.serverLength
  /\ carriesAttributes' = s.carriesAttributes
  /\ items' = s.items
  /\ itemVersionNumbers' = s.itemVersionNumbers
  /\ versionNumber' = s.versionNumber
  /\ totalLength' = s.totalLength
  /\ metadata' = s.metadata
  /\ error' = s.error
  /\ isLoading' = s.isLoading
  /\ isReloading' = s.isReloading
  /\ isFullyLoaded' = s.isFullyLoaded
  /\ loadedDate' = s.loadedDate
  /\ fullyLoadedDate' = s.fullyLoadedDate
  /\ loadingPageVersionNumbers' = s.loadingPageVersionNumbers
  /\ pagePromises' = s.pagePromises
  /\ loadingPageCount' = s.loadingPageCount
  /\ pageLoadContext' = s.pageLoadContext
  /\ inflight' = s.inflight
  /\ providerCalls' = s.providerCalls
  /\ UNCHANGED <<repoVars, simpleVars>>

\* ------------------------------------------------------------- the provider
\* the item the provider serves at absolute index idx to a request issued
\* at version ver
Item(ver, idx) == <<ver, idx>>

\* number of items in the response for page pageIndex
ResponseLength(s, pageIndex) ==
  Max(0, Min(s.pageSize, s.serverLength - pageIndex * s.pageSize))

TotalCalls(s) ==
  LET RECURSIVE Sum(_)
      Sum(p) == IF p < 0 THEN 0 ELSE s.providerCalls[p] + Sum(p - 1)
  IN Sum(ScanMaxTotal + 1)

\* ------------------------------------------------ PaginatedObservableList
getPageIndexFromItemIndex(s, itemIndex) == itemIndex \div s.pageSize

cancelPendingPageLoads(s) ==
  [s EXCEPT !.pageLoadContext = @ + 1,
            !.loadingPageVersionNumbers = <<>>,
            !.loadingPageCount = 0]

\* BaseObservableList.reset, then PaginatedObservableList.reset
reset(s) ==
  cancelPendingPageLoads(
    [s EXCEPT !.items = <<>>,
              !.isFullyLoaded = FALSE,
              !.loadedDate = FALSE,
              !.fullyLoadedDate = FALSE,
              !.error = Undefined,
              !.itemVersionNumbers = <<>>])

loadPageAtIndex_NoDedup(s, pageIndex) ==
  LET pagePromise == [pageIndex |-> pageIndex,
                      version |-> s.versionNumber,
                      context |-> s.pageLoadContext]
  IN [s EXCEPT
        !.error = Undefined,
        !.inflight = @ \cup {pagePromise},
        !.providerCalls[pageIndex] = @ + 1,
        !.pagePromises = ArrSet(@, pageIndex, pagePromise, NoPromise),
        !.loadingPageVersionNumbers =
           ArrSet(@, pageIndex, s.versionNumber, Undefined),
        !.loadingPageCount = @ + 1,
        !.isLoading = TRUE,
        !.ret = RetPromise(pagePromise)]

loadPageAtIndex(s, pageIndex) ==
  IF /\ Len(s.loadingPageVersionNumbers) > pageIndex
     /\ ArrGet(s.loadingPageVersionNumbers, pageIndex, Undefined) = s.versionNumber
    THEN [s EXCEPT !.ret = RetPromise(ArrGet(s.pagePromises, pageIndex, NoPromise))]
    ELSE
      LET pagePromise == [pageIndex |-> pageIndex,
                          version |-> s.versionNumber,
                          context |-> s.pageLoadContext]
      IN [s EXCEPT
            !.error = Undefined,
            !.inflight = @ \cup {pagePromise},
            !.providerCalls[pageIndex] = @ + 1,
            !.pagePromises = ArrSet(@, pageIndex, pagePromise, NoPromise),
            !.loadingPageVersionNumbers =
               ArrSet(@, pageIndex, s.versionNumber, Undefined),
            !.loadingPageCount = @ + 1,
            !.isLoading = TRUE,
            !.ret = RetPromise(pagePromise)]

\* getItemAtIndex that fetches the page from the provider whatever the slot's stamp
getItemAtIndex_AlwaysLoad(s, itemIndex) ==
  LET s1 == loadPageAtIndex_NoDedup(s, getPageIndexFromItemIndex(s, itemIndex))
  IN [s1 EXCEPT !.ret = RetItem(ArrGet(s1.items, itemIndex, NoItem))]

getItemAtIndex(s, itemIndex) ==
  IF s.versionNumber < 0 THEN [s EXCEPT !.ret = RetItem(NoItem)]
  ELSE
    LET s1 == IF \/ Len(s.items) <= itemIndex
                 \/ Len(s.itemVersionNumbers) <= itemIndex
                 \/ ArrGet(s.itemVersionNumbers, itemIndex, Undefined) = Undefined
                 \/ ArrGet(s.itemVersionNumbers, itemIndex, Undefined) < s.versionNumber
                THEN loadPageAtIndex(s, getPageIndexFromItemIndex(s, itemIndex))
                ELSE s
    IN [s1 EXCEPT !.ret = RetItem(ArrGet(s1.items, itemIndex, NoItem))]

getPageAtIndex(s, pageIndex) ==
  LET startIndex == pageIndex * s.pageSize
      endIndex == IF s.totalLength # UnknownLength
                    THEN Min(startIndex + s.pageSize, s.totalLength)
                    ELSE startIndex + s.pageSize
  IN IF Len(s.items) < endIndex \/ Len(s.itemVersionNumbers) < endIndex
       THEN loadPageAtIndex(s, pageIndex)
       ELSE IF \E index \in startIndex..(endIndex - 1) :
                 \/ ArrGet(s.items, index, NoItem) = NoItem
                 \/ ArrGet(s.itemVersionNumbers, index, Undefined) = Undefined
                 \/ ArrGet(s.itemVersionNumbers, index, Undefined) < s.versionNumber
              THEN loadPageAtIndex(s, pageIndex)
              ELSE [s EXCEPT !.ret = RetPromise(Resolved)]

getNextPage(s) ==
  IF s.isFullyLoaded
    THEN [s EXCEPT !.ret = RetPromise(Resolved)]
    ELSE getPageAtIndex(s, getPageIndexFromItemIndex(s, Len(s.items) + 1))

preload(s) ==
  IF s.totalLength >= 0 THEN [s EXCEPT !.ret = RetPromise(Resolved)]
  ELSE IF s.isLoading THEN [s EXCEPT !.ret = RetPromise(LoadingPromise)]
  ELSE getNextPage(s)

reload_NoBumpOnClear(s, clear, withPreload) ==
  LET s1 == IF clear THEN reset(s) ELSE [s EXCEPT !.versionNumber = @ + 1]
      s2 == [s1 EXCEPT !.isReloading = TRUE]
      s3 == IF withPreload THEN getPageAtIndex(s2, 0) ELSE s2
  IN [s3 EXCEPT !.ret = RetPromise(LoadingPromise)]

\* reload that leaves versionNumber as it is
reload_KeepVersion(s, clear, withPreload) ==
  LET s1 == IF clear THEN reset(s) ELSE s
      s2 == [s1 EXCEPT !.isReloading = TRUE]
      s3 == IF withPreload THEN getPageAtIndex(s2, 0) ELSE s2
  IN [s3 EXCEPT !.ret = RetPromise(LoadingPromise)]

reload(s, clear, withPreload) ==
  LET s1 == IF clear THEN reset(s) ELSE s
      s2 == [s1 EXCEPT !.versionNumber = @ + 1, !.isReloading = TRUE]
      s3 == IF withPreload THEN getPageAtIndex(s2, 0) ELSE s2
  IN [s3 EXCEPT !.ret = RetPromise(LoadingPromise)]

\* attachMetadata(this, data) for the response to request r
attachMetadata(s, r) ==
  IF s.carriesAttributes
    THEN [s EXCEPT !.metadata = r.version, !.totalLength = s.serverLength]
    ELSE s

\* a write loop that forgets the page offset
RECURSIVE writePage_PageRelative(_, _, _, _)
writePage_PageRelative(s, r, startIndex, n) ==
  IF n = 0 THEN s
  ELSE LET s1 == writePage_PageRelative(s, r, startIndex, n - 1)
           at == n - 1
       IN [s1 EXCEPT
             !.items = ArrSet(@, at, Item(r.version, at), NoItem),
             !.itemVersionNumbers = ArrSet(@, at, r.version, Undefined)]

\* write data[0..n-1] at startIndex.., stamping each slot
RECURSIVE writePage(_, _, _, _)
writePage(s, r, startIndex, n) ==
  IF n = 0 THEN s
  ELSE LET s1 == writePage(s, r, startIndex, n - 1)
           at == startIndex + n - 1
       IN [s1 EXCEPT
             !.items = ArrSet(@, at, Item(r.version, at), NoItem),
             !.itemVersionNumbers = ArrSet(@, at, r.version, Undefined)]

\* a success handler that never looks at the cancelled flag
pageLoaded_IgnoreCancelled(s, r) ==
  IF FALSE THEN s
  ELSE
    LET startIndex == s.pageSize * r.pageIndex
        s1 == [s EXCEPT
                 !.items = IF Len(@) < startIndex
                             THEN ArrSetLength(@, startIndex, NoItem) ELSE @,
                 !.itemVersionNumbers = IF Len(@) < startIndex
                             THEN ArrSetLength(@, startIndex, Undefined) ELSE @]
        s2 == writePage(s1, r, startIndex, ResponseLength(s, r.pageIndex))
        s3 == attachMetadata(s2, r)
        full == /\ Len(s3.itemVersionNumbers) >= s3.totalLength
                /\ \A k \in 1..Len(s3.itemVersionNumbers) :
                      s3.itemVersionNumbers[k] = s3.versionNumber
        count == s3.loadingPageCount - 1
    IN [s3 EXCEPT
          !.loadedDate = TRUE,
          !.isFullyLoaded = full,
          !.fullyLoadedDate = @ \/ full,
          !.pagePromises = ArrSet(@, r.pageIndex, NoPromise, NoPromise),
          !.loadingPageCount = count,
          !.isLoading = (count # 0),
          !.isReloading = IF count # 0 THEN @ ELSE FALSE]

\* the .then handler of a page request
pageLoaded(s, r) ==
  IF r.context # s.pageLoadContext THEN s
  ELSE
    LET startIndex == s.pageSize * r.pageIndex
        s1 == [s EXCEPT
                 !.items = IF Len(@) < startIndex
                             THEN ArrSetLength(@, startIndex, NoItem) ELSE @,
                 !.itemVersionNumbers = IF Len(@) < startIndex
                             THEN ArrSetLength(@, startIndex, Undefined) ELSE @]
        s2 == writePage(s1, r, startIndex, ResponseLength(s, r.pageIndex))
        s3 == attachMetadata(s2, r)
        full == /\ Len(s3.itemVersionNumbers) >= s3.totalLength
                /\ \A k \in 1..Len(s3.itemVersionNumbers) :
                      s3.itemVersionNumbers[k] = s3.versionNumber
        count == s3.loadingPageCount - 1
    IN [s3 EXCEPT
          !.loadedDate = TRUE,
          !.isFullyLoaded = full,
          !.fullyLoadedDate = @ \/ full,
          !.pagePromises = ArrSet(@, r.pageIndex, NoPromise, NoPromise),
          !.loadingPageCount = count,
          !.isLoading = (count # 0),
          !.isReloading = IF count # 0 THEN @ ELSE FALSE]

\* a failure handler that empties the list, as the simple list's does
pageFailed_Reset(s, r) ==
  LET s1 == IF r.version = s.versionNumber
              THEN [s EXCEPT
                      !.loadingPageCount = @ - 1,
                      !.isLoading = (s.loadingPageCount - 1 # 0),
                      !.isReloading = IF s.loadingPageCount - 1 # 0
                                        THEN @ ELSE FALSE]
              ELSE s
  IN [reset(s1) EXCEPT !.error = r.version]

\* the .catch handler of a page request
pageFailed(s, r) ==
  LET s1 == IF r.version = s.versionNumber
              THEN [s EXCEPT
                      !.loadingPageCount = @ - 1,
                      !.isLoading = (s.loadingPageCount - 1 # 0),
                      !.isReloading = IF s.loadingPageCount - 1 # 0
                                        THEN @ ELSE FALSE]
              ELSE s
  IN [s1 EXCEPT !.error = r.version]

\* ------------------------------------------------------------------ actions
\* the state the constructor leaves
Constructed ==
  /\ items = <<>>
  /\ itemVersionNumbers = <<>>
  /\ versionNumber = InitialVersion
  /\ totalLength = UnknownLength
  /\ metadata = Undefined
  /\ error = Undefined
  /\ isLoading = FALSE
  /\ isReloading = FALSE
  /\ isFullyLoaded = FALSE
  /\ loadedDate = FALSE
  /\ fullyLoadedDate = FALSE
  /\ loadingPageVersionNumbers = <<>>
  /\ pagePromises = <<>>
  /\ loadingPageCount = 0
  /\ pageLoadContext = InitialContext
  /\ inflight = {}
  /\ providerCalls = [p \in Pages |-> 0]

Init ==
  /\ pageSize \in PageSizes
  /\ serverLength \in 0..MaxTotal
  /\ carriesAttributes \in BOOLEAN
  /\ Constructed
  /\ RepoConstructed
  /\ ListConstructed

\* calls are made only while the provider-invocation budget lasts
WithinBudget(s) ==
  /\ \A r \in s.inflight : r.pageIndex <= MaxTotal
  /\ TotalCalls(s) <= MaxCalls

GetItemAtIndex(i) ==
  LET s == getItemAtIndex(State, i) IN WithinBudget(s) /\ Becomes(s)

GetPageAtIndex(p) ==
  LET s == getPageAtIndex(State, p) IN WithinBudget(s) /\ Becomes(s)

GetNextPage ==
  LET s == getNextPage(State) IN WithinBudget(s) /\ Becomes(s)

Preload ==
  LET s == preload(State) IN WithinBudget(s) /\ Becomes(s)

Reload(clear, withPreload) ==
  /\ versionNumber < MaxVersion
  /\ clear => pageLoadContext < MaxContext
  /\ LET s == reload(State, clear, withPreload) IN WithinBudget(s) /\ Becomes(s)

Reset ==
  /\ pageLoadContext < MaxContext
  /\ Becomes(reset(State))

\* the provider call r completes successfully
Resolve(r) ==
  Becomes([pageLoaded(State, r) EXCEPT !.inflight = @ \ {r}])

\* the provider call r fails
Reject(r) ==
  Becomes([pageFailed(State, r) EXCEPT !.inflight = @ \ {r}])

Next ==
  \/ \E i \in ReadIndices : GetItemAtIndex(i)
  \/ \E p \in Pages : p * pageSize <= MaxTotal /\ GetPageAtIndex(p)
  \/ GetNextPage
  \/ Preload
  \/ \E clear \in BOOLEAN, withPreload \in BOOLEAN : Reload(clear, withPreload)
  \/ Reset
  \/ \E r \in inflight : Resolve(r)
  \/ \E r \in inflight : Reject(r)

Spec == Init /\ [][Next]_vars

\* the same list over a collection that fills more than one page
InitPages ==
  /\ pageSize \in PageSizes
  /\ serverLength \in (MaxTotal + 1)..(MaxTotal + 2)
  /\ carriesAttributes \in BOOLEAN
  /\ Constructed
  /\ RepoConstructed
  /\ ListConstructed

SpecPages == InitPages /\ [][Next]_vars

\* reloads that preload, reads, and provider calls that all complete: the
\* promise of every provider call is settled at some time
NextReload ==
  \/ \E i \in ReadIndices : GetItemAtIndex(i)
  \/ \E clear \in BOOLEAN : Reload(clear, TRUE)
  \/ \E r \in inflight : Resolve(r)
  \/ \E r \in inflight : Reject(r)

Completion == \E r \in inflight : Resolve(r) \/ Reject(r)

SpecReload == Init /\ [][NextReload]_vars /\ WF_vars(Completion)

\* Array.prototype.splice(index, count): the array without the count
\* elements from index on
ArrSplice(arr, index, count) ==
  LET n == Min(count, Len(arr) - index)
  IN SubSeq(arr, 1, index) \o SubSeq(arr, index + n + 1, Len(arr))

\* BaseObservableList.splice(index, count) with no items to insert, as
\* BaseCollection.delete(item, true) calls it on the list of a paginated
\* collection: totalLength is adjusted and the elements are taken out of the
\* array; PaginatedObservableList does not override it
splice(s, index, count) ==
  [s EXCEPT !.totalLength = @ - count,
            !.items = ArrSplice(@, index, count)]

\* the end of BaseCollection.delete(item, true): a list that is loading is
\* awaited (loadingPromise chains the page fetches made since the last
\* reset), then this._data.splice(index, 1) for the index of the item
Splice(index) ==
  /\ isLoading => \A r \in inflight : r.context # pageLoadContext
  /\ ArrGet(items, index, NoItem) # NoItem
  /\ Becomes(splice(State, index, 1))

NextSplice ==
  \/ Next
  \/ \E index \in 0..(MaxTotal + 2) : Splice(index)

\* the list of a paginated collection whose items can be deleted
SpecSplice == InitPages /\ [][NextSplice]_vars

\* ---------------------------------------------------------- AjaxRepository
FieldNames == {"name", "note"}
FieldValues == {"A", "B"}
Absent == "absent"               \* the key is not an own property

\* a Model object: its data fields and its _orm bookkeeping
NewObject(id, fields) ==
  [id |-> id, fields |-> fields, isLoading |-> FALSE, loadingPromise |-> NoHandle]

\* the objects a response body mapper can produce for an id
Candidates(id) ==
  {[id |-> id, fields |-> f] : f \in [FieldNames -> FieldValues \cup {Absent}]}

\* the repository state as one record; ret is the value the call returns
RepoState ==
  [heap |-> heap, modelObjectCache |-> modelObjectCache, requests |-> requests,
   requestCount |-> requestCount, failed |-> failed, delivered |-> delivered,
   ret |-> NoRef]

RepoBecomes(s) ==
  /\ heap' = s.heap
  /\ modelObjectCache' = s.modelObjectCache
  /\ requests' = s.requests
  /\ requestCount' = s.requestCount
  /\ failed' = s.failed
  /\ delivered' = s.delivered
  /\ UNCHANGED <<listVars, simpleVars>>

\* Object.assign(target, source) on the data fields
ObjectAssign(target, source) ==
  [target EXCEPT
     !.id = source.id,
     !.fields = [f \in FieldNames |->
                   IF source.fields[f] # Absent THEN source.fields[f] ELSE @[f]]]

\* cacheItem without the early return for a candidate that has no id: the
\* candidate is looked up and registered under one key like any other
cacheItem_NoPassthrough(s, item) ==
  LET key == IF item.id = NoId THEN CHOOSE id \in Ids : TRUE ELSE item.id
      cachedItem == s.modelObjectCache[key]
  IN IF cachedItem # NoRef
       THEN [s EXCEPT !.heap[cachedItem] = ObjectAssign(@, item),
                      !.ret = cachedItem]
       ELSE [s EXCEPT !.heap = Append(@, NewObject(item.id, item.fields)),
                      !.modelObjectCache[key] = Len(s.heap) + 1,
                      !.ret = Len(s.heap) + 1]

\* cacheItem that installs the candidate in place of the cached object
cacheItem_Replace(s, item) ==
  IF item.id = NoId
    THEN [s EXCEPT !.heap = Append(@, NewObject(item.id, item.fields)),
                   !.ret = Len(s.heap) + 1]
    ELSE [s EXCEPT !.heap = Append(@, NewObject(item.id, item.fields)),
                   !.modelObjectCache[item.id] = Len(s.heap) + 1,
                   !.ret = Len(s.heap) + 1]

\* cacheItem for an object fresh from a response
cacheItem(s, item) ==
  IF item.id = NoId
    THEN [s EXCEPT !.heap = Append(@, NewObject(item.id, item.fields)),
                   !.ret = Len(s.heap) + 1]
    ELSE
      LET cachedItem == s.modelObjectCache[item.id]
      IN IF cachedItem # NoRef
           THEN [s EXCEPT !.heap[cachedItem] = ObjectAssign(@, item),
                          !.ret = cachedItem]
           ELSE [s EXCEPT !.heap = Append(@, NewObject(item.id, item.fields)),
                          !.modelObjectCache[item.id] = Len(s.heap) + 1,
                          !.ret = Len(s.heap) + 1]

\* cacheMember: item && this.cacheItem(item); NoRef stands for undefined
NotFound == [id |-> NoId, fields |-> [f \in FieldNames |-> Absent], missing |-> TRUE]

RECURSIVE cacheListFrom(_, _, _)
cacheListFrom(s, list, k) ==
  IF k > Len(list) THEN [s EXCEPT !.ret = <<>>]
  ELSE LET s1 == cacheItem(s, list[k])
           s2 == cacheListFrom(s1, list, k + 1)
       IN [s2 EXCEPT !.ret = <<s1.ret>> \o s2.ret]

\* cacheList that hands the response objects on as they came
cacheList_NoReconcile(s, list) ==
  [s EXCEPT
     !.heap = @ \o [k \in 1..Len(list) |-> NewObject(list[k].id, list[k].fields)],
     !.ret = [k \in 1..Len(list) |-> Len(s.heap) + k]]

cacheList(s, list) == cacheListFrom(s, list, 1)

\* uncacheItem that drops every mapping
uncacheItem_All(s, item) ==
  IF item.id # NoId
    THEN [s EXCEPT !.modelObjectCache = [id \in Ids |-> NoRef]]
    ELSE s

\* uncacheItem that leaves the mapping in place
uncacheItem_Keep(s, item) == s

uncacheItem(s, item) ==
  IF item.id # NoId
    THEN [s EXCEPT !.modelObjectCache[item.id] = NoRef]
    ELSE s

resetCache(s) == [s EXCEPT !.modelObjectCache = [id \in Ids |-> NoRef]]

\* items.forEach(this.uncacheItem), the items given by their ids
RECURSIVE uncacheAll(_, _)
uncacheAll(s, ids) ==
  IF ids = {} THEN s
  ELSE LET id == CHOOSE i \in ids : TRUE
       IN uncacheAll([s EXCEPT !.modelObjectCache[id] = NoRef], ids \ {id})

\* Model.isFullyLoaded (base class getter)
IsFullyLoaded(obj) == TRUE

\* getById that never looks at the loading marker of the cached object
getById_NoCoalesce(s, id, forceReload) ==
  LET cachedItem == s.modelObjectCache[id]
      no == s.requestCount + 1
      request == [no |-> no, kind |-> "getById", id |-> id,
                  cachedItem |-> cachedItem, waiters |-> {}]
  IN IF cachedItem # NoRef /\ IsFullyLoaded(s.heap[cachedItem]) /\ ~forceReload
          /\ ~s.heap[cachedItem].isLoading
       THEN [s EXCEPT !.ret = NoHandle]
     ELSE IF cachedItem # NoRef
       THEN [s EXCEPT !.requests = @ \cup {request},
                      !.requestCount = no,
                      !.heap[cachedItem].loadingPromise = no,
                      !.heap[cachedItem].isLoading = TRUE,
                      !.ret = no]
     ELSE [s EXCEPT !.requests = @ \cup {request},
                    !.requestCount = no,
                    !.ret = no]

\* getById up to its await: the handle it returns is the request number
getById(s, id, forceReload) ==
  LET cachedItem == s.modelObjectCache[id]
      no == s.requestCount + 1
      request == [no |-> no, kind |-> "getById", id |-> id,
                  cachedItem |-> cachedItem, waiters |-> {}]
  IN IF cachedItem # NoRef /\ s.heap[cachedItem].isLoading
       THEN [s EXCEPT !.ret = s.heap[cachedItem].loadingPromise]
     ELSE IF cachedItem # NoRef /\ IsFullyLoaded(s.heap[cachedItem]) /\ ~forceReload
       THEN [s EXCEPT !.ret = NoHandle]
     ELSE IF cachedItem # NoRef
       THEN [s EXCEPT !.requests = @ \cup {request},
                      !.requestCount = no,
                      !.heap[cachedItem].loadingPromise = no,
                      !.heap[cachedItem].isLoading = TRUE,
                      !.ret = no]
     ELSE [s EXCEPT !.requests = @ \cup {request},
                    !.requestCount = no,
                    !.ret = no]

\* the continuation of reload(item) after its await registers as a waiter
\* of the request behind the awaited promise
AddWaiter(reqs, handle, item) ==
  {IF r.no = handle THEN [r EXCEPT !.waiters = @ \cup {item}] ELSE r : r \in reqs}

\* reload(item) that goes to getById without registering the item first
reloadItem_NoRegister(s, item) ==
  LET itemId == s.heap[item].id
      s2 == getById(s, itemId, TRUE)
      handle == s2.ret
      pending == \E r \in s2.requests : r.no = handle
      settledOk == ~pending /\ handle \notin s2.failed
  IN [s2 EXCEPT
        !.heap[item].loadingPromise = handle,
        !.heap[item].isLoading = ~settledOk,
        !.requests = AddWaiter(@, handle, item)]

\* AjaxRepository.reload(item) up to its await, item a reference with an id
reloadItem(s, item) ==
  LET itemId == s.heap[item].id
      s1 == IF s.modelObjectCache[itemId] = NoRef
              THEN [s EXCEPT !.modelObjectCache[itemId] = item]
              ELSE s
      s2 == getById(s1, itemId, TRUE)
      handle == s2.ret
      pending == \E r \in s2.requests : r.no = handle
      settledOk == ~pending /\ handle \notin s2.failed
  IN [s2 EXCEPT
        !.heap[item].loadingPromise = handle,
        !.heap[item].isLoading = ~settledOk,
        !.requests = AddWaiter(@, handle, item)]

\* the transport call of getById request r succeeds with outcome (a candidate
\* or NotFound for a 404); then the continuations awaiting it run
getByIdLoaded(s, r, outcome) ==
  LET s1 == IF outcome = NotFound
              THEN [s EXCEPT !.ret = NoRef]
              ELSE cacheItem(s, [id |-> outcome.id, fields |-> outcome.fields])
      item == s1.ret
      clear == (IF item # NoRef THEN {item} ELSE {})
                 \cup (IF r.cachedItem # NoRef THEN {r.cachedItem} ELSE {})
                 \cup r.waiters
  IN [s1 EXCEPT
        !.heap = [k \in DOMAIN s1.heap |->
                    IF k \in clear THEN [s1.heap[k] EXCEPT !.isLoading = FALSE]
                    ELSE s1.heap[k]],
        !.requests = {q \in @ : q.no # r.no}]

\* the transport call of request r fails (not a 404)
requestFailed(s, r) ==
  [s EXCEPT !.requests = {q \in @ : q.no # r.no},
            !.failed = @ \cup {r.no}]

\* the list side is not part of the repository behaviours
InitRepo ==
  /\ pageSize = 1
  /\ serverLength = 0
  /\ carriesAttributes = FALSE
  /\ Constructed
  /\ RepoConstructed
  /\ ListConstructed

WithinRepoBudget(s) ==
  /\ Len(s.heap) <= MaxObjects
  /\ s.requestCount <= MaxRequests

GetById(id, forceReload) ==
  LET s == getById(RepoState, id, forceReload)
  IN WithinRepoBudget(s) /\ RepoBecomes(s)

\* reload(item) for an object the consumer holds
ReloadItem(item) ==
  /\ heap[item].id # NoId
  /\ LET s == reloadItem(RepoState, item)
     IN WithinRepoBudget(s) /\ RepoBecomes(s)

\* reload(item) for an object the consumer has just constructed with an id
ReloadNewItem(id) ==
  LET s0 == [RepoState EXCEPT
               !.heap = Append(@, NewObject(id, [f \in FieldNames |-> Absent]))]
      s == reloadItem(s0, Len(s0.heap))
  IN WithinRepoBudget(s) /\ RepoBecomes(s)

ResolveGetById(r, outcome) ==
  /\ r.kind = "getById"
  /\ LET s == getByIdLoaded(RepoState, r, outcome)
     IN WithinRepoBudget(s) /\ RepoBecomes(s)

RejectRequest(r) == RepoBecomes(requestFailed(RepoState, r))

\* AjaxRepository.list: the request is issued
ListCall ==
  LET no == requestCount + 1
      s == [RepoState EXCEPT
              !.requests = @ \cup {[no |-> no, kind |-> "list", id |-> NoId,
                                    cachedItem |-> NoRef, waiters |-> {}]},
              !.requestCount = no]
  IN WithinRepoBudget(s) /\ RepoBecomes(s)

\* the lists a list response body mapper can produce
ListResponses ==
  {<<>>}
    \cup {<<[id |-> i, fields |-> [name |-> v, note |-> Absent]]>> :
            i \in Ids \cup {NoId}, v \in FieldValues}
    \cup {<<[id |-> i, fields |-> [name |-> v, note |-> Absent]],
            [id |-> j, fields |-> [name |-> v, note |-> Absent]]>> :
            i \in Ids, j \in Ids, v \in FieldValues}

ResolveList(r, list) ==
  /\ r.kind = "list"
  /\ LET s1 == cacheList(RepoState, list)
         s == [s1 EXCEPT !.delivered = s1.ret,
                         !.requests = {q \in @ : q.no # r.no}]
     IN WithinRepoBudget(s) /\ RepoBecomes(s)

\* AjaxRepository.delete(member): the request is issued
DeleteCall(member) ==
  LET no == requestCount + 1
      s == [RepoState EXCEPT
              !.requests = @ \cup {[no |-> no, kind |-> "delete", id |-> NoId,
                                    cachedItem |-> member, waiters |-> {}]},
              !.requestCount = no]
  IN WithinRepoBudget(s) /\ RepoBecomes(s)

ResolveDelete(r) ==
  /\ r.kind = "delete"
  /\ RepoBecomes([uncacheItem(RepoState, heap[r.cachedItem])
                    EXCEPT !.requests = {q \in @ : q.no # r.no}])

\* AjaxRepository.deleteAll: the request is issued
DeleteAllCall ==
  LET no == requestCount + 1
      s == [RepoState EXCEPT
              !.requests = @ \cup {[no |-> no, kind |-> "deleteAll", id |-> NoId,
                                    cachedItem |-> NoRef, waiters |-> {}]},
              !.requestCount = no]
  IN WithinRepoBudget(s) /\ RepoBecomes(s)

\* what a deleteAll response body mapper can produce: true, false, or the
\* deleted items (given by their ids)
DeleteAllResponses ==
  {[is |-> b, ids |-> {}] : b \in {"true", "false"}}
    \cup {[is |-> "items", ids |-> ids] : ids \in SUBSET Ids}

ResolveDeleteAll(r, outcome) ==
  /\ r.kind = "deleteAll"
  /\ LET s == IF outcome.is = "true" THEN resetCache(RepoState)
              ELSE IF outcome.is = "false" THEN [RepoState EXCEPT !.failed = @ \cup {r.no}]
              ELSE uncacheAll(RepoState, outcome.ids)
     IN RepoBecomes([s EXCEPT !.requests = {q \in @ : q.no # r.no}])

NextRepo ==
  \/ \E id \in Ids, forceReload \in BOOLEAN : GetById(id, forceReload)
  \/ \E item \in DOMAIN heap : ReloadItem(item)
  \/ \E id \in Ids : ReloadNewItem(id)
  \/ ListCall
  \/ \E member \in DOMAIN heap : DeleteCall(member)
  \/ \E r \in requests : \E outcome \in Candidates(r.id) \cup {NotFound} :
       ResolveGetById(r, outcome)
  \/ \E r \in requests, list \in ListResponses : ResolveList(r, list)
  \/ \E r \in requests : ResolveDelete(r)
  \/ DeleteAllCall
  \/ \E r \in requests, outcome \in DeleteAllResponses : ResolveDeleteAll(r, outcome)
  \/ \E r \in requests : RejectRequest(r)

SpecRepo == InitRepo /\ [][NextRepo]_vars

\* ---------------------------------------------------------- ObservableList
\* the list object with its promises as one record; ret is what a call returns
SimpleState == [list |-> observableList, promises |-> loadPromises,
                ret |-> [handle |-> 0, value |-> <<>>]]

SimpleBecomes(s) ==
  /\ observableList' = s.list
  /\ loadPromises' = s.promises
  /\ UNCHANGED <<listVars, repoVars>>

\* a call returns a promise it holds, or Promise.resolve(value)
RetHandle(h) == [handle |-> h, value |-> <<>>]
RetResolved(value) == [handle |-> 0, value |-> value]

\* what the provider of a simple list can resolve with: the items, and the
\* totalLength and metadata properties the array may carry
ListData ==
  [items : {<<>>, <<"x">>, <<"y">>, <<"x", "y">>},
   hasTotalLength : BOOLEAN, totalLength : 0..2,
   hasMetadata : BOOLEAN, metadata : 1..2]

\* BaseObservableList.reset on the list object
BaseObservableList_reset(l) ==
  [l EXCEPT !.items = <<>>, !.isFullyLoaded = FALSE, !.loadedDate = FALSE,
            !.fullyLoadedDate = FALSE, !.error = Undefined]

\* BaseObservableList.replace(items) outside reset
BaseObservableList_replace(l, newItems) ==
  [l EXCEPT !.totalLength = Len(newItems), !.items = newItems]

\* attachMetadata(target, source) for the simple list
attachListMetadata(l, data) ==
  LET l1 == IF data.hasMetadata THEN [l EXCEPT !.metadata = data.metadata] ELSE l
  IN IF data.hasTotalLength THEN [l1 EXCEPT !.totalLength = data.totalLength] ELSE l1

\* ObservableList.load(this.provider()): the provider is invoked and the
\* promise chained on its result becomes loadingPromise
ObservableList_load(s) ==
  LET h == Len(s.promises) + 1
  IN [s EXCEPT !.promises = Append(@, Pending),
               !.list.loadingPromise = h,
               !.list.isLoading = TRUE,
               !.ret = RetHandle(h)]

\* reload that starts a load whether or not one is in flight
ObservableList_reload_Always(s, clear) ==
  LET s1 == IF clear THEN [s EXCEPT !.list = BaseObservableList_reset(@)] ELSE s
      s2 == ObservableList_load(s1)
  IN [s2 EXCEPT !.list.isReloading = TRUE,
                !.ret = RetHandle(s2.list.loadingPromise)]

ObservableList_reload(s, clear) ==
  LET s1 == IF clear THEN [s EXCEPT !.list = BaseObservableList_reset(@)] ELSE s
  IN IF s1.list.isLoading
       THEN [s1 EXCEPT !.ret = RetHandle(s1.list.loadingPromise)]
       ELSE LET s2 == ObservableList_load(s1)
            IN [s2 EXCEPT !.list.isReloading = TRUE,
                          !.ret = RetHandle(s2.list.loadingPromise)]

\* preload that reloads whenever no load is in flight
ObservableList_preload_AlwaysReload(s) ==
  IF s.list.isLoading THEN [s EXCEPT !.ret = RetHandle(s.list.loadingPromise)]
  ELSE ObservableList_reload(s, FALSE)

ObservableList_preload(s) ==
  IF s.list.isLoading THEN [s EXCEPT !.ret = RetHandle(s.list.loadingPromise)]
  ELSE IF ~s.list.loadedDate THEN ObservableList_reload(s, FALSE)
  ELSE [s EXCEPT !.ret = RetResolved(s.list.items)]

\* the success handler of load for promise h
loadSucceeded(s, h, data) ==
  LET l1 == [s.list EXCEPT !.isLoading = FALSE, !.isReloading = FALSE]
      l2 == BaseObservableList_replace(l1, data.items)
      l3 == attachListMetadata(l2, data)
      l4 == [l3 EXCEPT !.isFullyLoaded = TRUE, !.loadedDate = TRUE,
                       !.fullyLoadedDate = TRUE]
  IN [s EXCEPT !.list = [l4 EXCEPT !.totalLength = Len(l4.items)],
               !.promises[h] = Fulfilled]

\* a failure handler that clears the flags but does not record the failure
loadFailed_ErrorLost(s, h) ==
  LET l1 == BaseObservableList_reset(s.list)
  IN [s EXCEPT !.list = [l1 EXCEPT !.isLoading = FALSE, !.isReloading = FALSE],
               !.promises[h] = Rejected(h)]

\* the failure handler of load for promise h; the failure is named by h
loadFailed(s, h) ==
  LET l1 == BaseObservableList_reset(s.list)
  IN [s EXCEPT !.list = [l1 EXCEPT !.isLoading = FALSE, !.isReloading = FALSE,
                                   !.error = h],
               !.promises[h] = Rejected(h)]

PendingLoads(promises) == {h \in DOMAIN promises : promises[h] = Pending}

InitList ==
  /\ pageSize = 1
  /\ serverLength = 0
  /\ carriesAttributes = FALSE
  /\ Constructed
  /\ RepoConstructed
  /\ ListConstructed

WithinLoadBudget(s) == Len(s.promises) <= MaxLoads

ListReload(clear) ==
  LET s == ObservableList_reload(SimpleState, clear)
  IN WithinLoadBudget(s) /\ SimpleBecomes(s)

ListPreload ==
  LET s == ObservableList_preload(SimpleState)
  IN WithinLoadBudget(s) /\ SimpleBecomes(s)

ListReset ==
  LET s == [SimpleState EXCEPT !.list = BaseObservableList_reset(@)]
  IN WithinLoadBudget(s) /\ SimpleBecomes(s)

LoadResolve(h, data) ==
  LET s == loadSucceeded(SimpleState, h, data)
  IN WithinLoadBudget(s) /\ SimpleBecomes(s)

LoadReject(h) ==
  LET s == loadFailed(SimpleState, h)
  IN WithinLoadBudget(s) /\ SimpleBecomes(s)

NextList ==
  \/ \E clear \in BOOLEAN : ListReload(clear)
  \/ ListPreload
  \/ ListReset
  \/ \E h \in PendingLoads(loadPromises), data \in ListData : LoadResolve(h, data)
  \/ \E h \in PendingLoads(loadPromises) : LoadReject(h)

SpecList == InitList /\ [][NextList]_vars

\* --------------------------------------------------------------- scenarios
\* A consumer that only reads indices 0..T-1 of a fresh list whose provider
\* always succeeds and reports totalLength T.
InitScan ==
  /\ pageSize \in ScanPageSizes
  /\ serverLength \in 1..ScanMaxTotal
  /\ carriesAttributes = TRUE
  /\ Constructed
  /\ RepoConstructed
  /\ ListConstructed

ScanRead(i) == i < serverLength /\ Becomes(getItemAtIndex(State, i))

NextScan ==
  \/ \E i \in 0..(ScanMaxTotal - 1) : ScanRead(i)
  \/ \E r \in inflight : Resolve(r)

SpecScan == InitScan /\ [][NextScan]_vars

\* A consumer that calls getNextPage() on a fresh list, each call after the
\* previous one resolved, until isFullyLoaded; the provider always succeeds
\* and reports totalLength T.
InitNextPage ==
  /\ pageSize \in ScanPageSizes
  /\ serverLength \in 1..ScanMaxTotal
  /\ carriesAttributes = TRUE
  /\ Constructed
  /\ RepoConstructed
  /\ ListConstructed

NextPageCall ==
  /\ inflight = {}
  /\ ~isFullyLoaded
  /\ LET s == getNextPage(State)
     IN (\A r \in s.inflight : r.pageIndex \in Pages) /\ Becomes(s)

NextNextPage ==
  \/ NextPageCall
  \/ \E r \in inflight : Resolve(r)

SpecNextPage == InitNextPage /\ [][NextNextPage]_vars

\* ------------------------------------------------------------------ claims
\* ceil(serverLength / pageSize)
PageCount == (serverLength + pageSize - 1) \div pageSize

InFlightFor(p) == {r \in inflight : r.pageIndex = p}

\* C1: a slot written by the response to a fetch issued at version v is never
\* afterwards overwritten by the response to a fetch issued at an older
\* version: on every provider completion no stored stamp decreases.
C1_NoStaleOverwrite ==
  [][\A r \in inflight :
       Resolve(r) =>
         \A k \in 1..Len(itemVersionNumbers) :
           k <= Len(itemVersionNumbers') =>
             itemVersionNumbers'[k] >= itemVersionNumbers[k]]_vars

\* C2: a page fetch that resolves with a captured version older than the live
\* versionNumber leaves contents, length, stamps, totalLength and metadata
\* unchanged and does not set error.
C2_StaleResponseDropped ==
  [][\A r \in inflight :
       (r.version < versionNumber /\ Resolve(r)) =>
         UNCHANGED <<items, itemVersionNumbers, totalLength, metadata, error>>]_vars

\* C3: while a fetch for page p issued at the current version is in flight
\* (and has not been cancelled by reset()), getItemAtIndex on an index of p,
\* getPageAtIndex(p) and getNextPage() targeting p do not invoke the provider
\* and the promise-returning calls yield the handle of that fetch; stated for
\* the pages that hold items of the collection.
C3_OneFetchPerPageAndVersion ==
  \A p \in Pages :
    LET current == {r \in InFlightFor(p) : /\ r.version = versionNumber
                                           /\ r.context = pageLoadContext}
    IN (current # {} /\ p < PageCount) =>
         /\ \A i \in ReadIndices :
              i \div pageSize = p =>
                getItemAtIndex(State, i).providerCalls = providerCalls
         /\ getPageAtIndex(State, p).providerCalls = providerCalls
         /\ getPageAtIndex(State, p).ret.promise \in current
         /\ (~isFullyLoaded /\ getPageIndexFromItemIndex(State, Len(items) + 1) = p) =>
              /\ getNextPage(State).providerCalls = providerCalls
              /\ getNextPage(State).ret.promise \in current

\* C4: reading every index 0..T-1 invokes the provider exactly once for each
\* page 0..ceil(T/P)-1 and for no other page, whatever the order of the
\* responses; isFullyLoaded is false until the last page has resolved and
\* true once all pages have resolved.
C4_ScanLoadsEachPageOnce ==
  /\ \A p \in Pages :
       /\ providerCalls[p] <= 1
       /\ p >= PageCount => providerCalls[p] = 0
  /\ \A i \in 0..(serverLength - 1) :
       getItemAtIndex(State, i).providerCalls[i \div pageSize] = 1
  /\ isFullyLoaded <=>
       \A p \in 0..(PageCount - 1) :
         providerCalls[p] = 1 /\ InFlightFor(p) = {}

C4_Witness ==
  /\ pageSize = 2
  /\ serverLength = 5
  /\ isFullyLoaded
  /\ \A p \in 0..2 : providerCalls[p] = 1
  /\ Len(items) = 5

\* C5: (with a provider that reports totalLength) isFullyLoaded holds iff
\* totalLength is known and every slot in [0, totalLength) carries the
\* current versionNumber.
C5_FullyLoadedIffAllFresh ==
  carriesAttributes =>
    (isFullyLoaded <=>
       /\ totalLength # UnknownLength
       /\ \A i \in 0..(totalLength - 1) :
            ArrGet(itemVersionNumbers, i, Undefined) = versionNumber)

C7_NextPageVisitsEachPageOnce ==
  /\ \A p \in Pages :
       /\ providerCalls[p] <= 1
       /\ p >= PageCount => providerCalls[p] = 0
  /\ isFullyLoaded =>
       /\ Len(items) = totalLength
       /\ \A p \in 0..(PageCount - 1) : providerCalls[p] = 1
  /\ (inflight = {} /\ ~isFullyLoaded) =>
       \E p \in 0..(PageCount - 1) : providerCalls[p] = 0

\* ------------------------------------------------- claims on the repository
GetByIdRequests(id) == {r \in requests : r.kind = "getById" /\ r.id = id}

\* a request completed successfully in this step
Completed(kind) ==
  \E r \in requests : r.kind = kind /\ r \notin requests' /\ failed' = failed

\* C8: once an object is registered for an id, cacheItem of any candidate with
\* that id returns that same object and allocates nothing, leaves the cache
\* map alone, gives the object every field the candidate has and leaves its
\* other fields as they were; and the object registered for an id changes
\* only by the id being forgotten (delete) or the cache being cleared
\* (deleteAll).
C8_ReconcileKeepsIdentityAndMerges ==
  /\ [](\A id \in Ids : modelObjectCache[id] # NoRef =>
         \A c \in Candidates(id) :
           LET canonical == modelObjectCache[id]
               s == cacheItem(RepoState, c)
           IN /\ s.ret = canonical
              /\ Len(s.heap) = Len(heap)
              /\ s.modelObjectCache = modelObjectCache
              /\ \A f \in FieldNames :
                   s.heap[canonical].fields[f] =
                     IF c.fields[f] # Absent THEN c.fields[f]
                     ELSE heap[canonical].fields[f]
              /\ \A k \in DOMAIN heap : k # canonical => s.heap[k] = heap[k])
  /\ [][\A id \in Ids :
          (modelObjectCache[id] # NoRef /\ modelObjectCache'[id] # modelObjectCache[id])
            => /\ modelObjectCache'[id] = NoRef
               /\ Completed("delete") \/ Completed("deleteAll")]_vars

\* two responses for id "1" have been reconciled into one object: the second
\* gave it name "B" and left the note the first had given it
C8_Witness ==
  /\ requestCount = 2
  /\ requests = {}
  /\ failed = {}
  /\ delivered = <<>>
  /\ Len(heap) = 1
  /\ modelObjectCache["1"] = 1
  /\ heap[1].fields = [name |-> "B", note |-> "A"]

C10_OneGetByIdRequestPerId ==
  \A id \in Ids : Cardinality(GetByIdRequests(id)) <= 1

\* C11: when the object cached for an id is marked as loading, getById(id,
\* reload), for either value of reload, returns the handle the object carries
\* and issues no transport request; and whenever a getById request is issued
\* for an id, the object cached for it was not marked as loading.
C11_LoadingObjectCoalesces ==
  /\ [](\A id \in Ids :
          LET cachedItem == modelObjectCache[id]
          IN (cachedItem # NoRef /\ heap[cachedItem].isLoading) =>
               \A forceReload \in BOOLEAN :
                 LET s == getById(RepoState, id, forceReload)
                 IN /\ s.ret = heap[cachedItem].loadingPromise
                    /\ s.requests = requests
                    /\ s.requestCount = requestCount)
  /\ [][\A id \in Ids :
          LET cachedItem == modelObjectCache[id]
          IN (cachedItem # NoRef /\ heap[cachedItem].isLoading) =>
               {r.no : r \in GetByIdRequests(id)}'
                 \subseteq {r.no : r \in GetByIdRequests(id)}]_vars

\* reload(item) was called for a second object with the id while the getById
\* request of the cached object was in flight: both wait on that one request
\* and no second request was issued
C11_Witness ==
  /\ requestCount = 1
  /\ \E r \in requests :
       /\ r.kind = "getById"
       /\ r.cachedItem # NoRef
       /\ modelObjectCache[r.id] = r.cachedItem
       /\ heap[r.cachedItem].isLoading
       /\ heap[r.cachedItem].loadingPromise = r.no
       /\ r.cachedItem \in r.waiters
       /\ Cardinality(r.waiters) = 2

\* C12: when the getById request of a cached object completes, by success or
\* by failure, the object is no longer marked as loading: no cached object is
\* marked as loading with a handle that has been rejected.
C12_MarkerClearedOnCompletion ==
  \A id \in Ids :
    LET cachedItem == modelObjectCache[id]
    IN (cachedItem # NoRef /\ heap[cachedItem].isLoading) =>
         heap[cachedItem].loadingPromise \notin failed

\* ---------------------------------------------- claims on the simple list
\* C13: at most one provider call of the simple list is outstanding; while
\* isLoading, loadingPromise is that outstanding call's promise, and reload
\* (with or without clear) and preload return it without invoking the
\* provider.
C13_OneLoadOutstanding ==
  /\ Cardinality(PendingLoads(loadPromises)) <= 1
  /\ observableList.isLoading <=> PendingLoads(loadPromises) # {}
  /\ observableList.isLoading =>
       /\ PendingLoads(loadPromises) = {observableList.loadingPromise}
       /\ \A clear \in BOOLEAN :
            LET s == ObservableList_reload(SimpleState, clear)
            IN /\ s.promises = loadPromises
               /\ s.ret = RetHandle(observableList.loadingPromise)
       /\ LET s == ObservableList_preload(SimpleState)
          IN /\ s.promises = loadPromises
             /\ s.ret = RetHandle(observableList.loadingPromise)

\* the constructor's load has succeeded and a reload is in flight
C13_Witness ==
  /\ loadPromises = <<Fulfilled, Pending>>
  /\ observableList.isLoading
  /\ observableList.isReloading
  /\ observableList.loadingPromise = 2

\* C14: after a successful load whose response carries a totalLength and/or
\* metadata, the list's totalLength and metadata are the carried values.
C14_CarriedAttributesKept ==
  [][\A h \in PendingLoads(loadPromises), data \in ListData :
       LoadResolve(h, data) =>
         /\ data.hasTotalLength => observableList'.totalLength = data.totalLength
         /\ data.hasMetadata => observableList'.metadata = data.metadata]_vars

\* C15: after any successful load error is undefined.
C15_SuccessClearsError ==
  [][\A h \in PendingLoads(loadPromises), data \in ListData :
       LoadResolve(h, data) => observableList'.error = Undefined]_vars

\* C16: when the provider call of a load fails, error holds the failure,
\* isLoading and isReloading are false, and the promise of that load, which
\* is the one the reload()/preload() call that started it returned, is
\* rejected with the same failure.
C16_FailureOnBothChannels ==
  /\ [][\A h \in PendingLoads(loadPromises) :
          LoadReject(h) =>
            /\ observableList'.error = h
            /\ ~observableList'.isLoading
            /\ ~observableList'.isReloading
            /\ observableList.loadingPromise = h
            /\ loadPromises'[h] = Rejected(h)]_vars
  /\ [](\A clear \in BOOLEAN :
          LET s == ObservableList_reload(SimpleState, clear)
          IN /\ s.ret = RetHandle(s.list.loadingPromise)
             /\ Len(s.promises) > Len(loadPromises) =>
                  s.ret = RetHandle(Len(s.promises)))
  /\ [](LET s == ObservableList_preload(SimpleState)
        IN Len(s.promises) > Len(loadPromises) =>
             s.ret = RetHandle(Len(s.promises)))

\* the constructor's load succeeded and the reload after it has failed
C16_Witness ==
  /\ loadPromises = <<Fulfilled, Rejected(2)>>
  /\ observableList.error = 2
  /\ ~observableList.isLoading
  /\ ~observableList.isReloading

\* C17: when the load started by reload(clear=false) on a loaded list fails,
\* the contents are those held before the failure.
C17_FailureKeepsContents ==
  [][\A h \in PendingLoads(loadPromises) :
       (LoadReject(h) /\ observableList.loadedDate) =>
         observableList'.items = observableList.items]_vars

C19_FailedPageRetried ==
  [][\A r \in inflight :
       (/\ Reject(r)
        /\ r.version = versionNumber
        /\ r.context = pageLoadContext
        /\ r.pageIndex < PageCount) =>
         /\ (getPageAtIndex(State, r.pageIndex).providerCalls[r.pageIndex]
               = providerCalls[r.pageIndex] + 1)'
         /\ (getItemAtIndex(State, r.pageIndex * pageSize).providerCalls[r.pageIndex]
               = providerCalls[r.pageIndex] + 1)'
         /\ \A q \in Pages \ {r.pageIndex} :
              (getPageAtIndex(State, q).providerCalls[q] - providerCalls[q])'
                = getPageAtIndex(State, q).providerCalls[q] - providerCalls[q]]_vars

\* C20: the failure of a page fetch whose captured version is older than the
\* live versionNumber leaves the error field unchanged.
C20_StaleFailureSwallowed ==
  [][\A r \in inflight :
       (Reject(r) /\ r.version < versionNumber) => error' = error]_vars

\* ----------------------------------- claims on reload and reads (paginated)
\* a slot that holds a value loaded at the current version
Fresh(i) ==
  /\ i < Len(items)
  /\ i < Len(itemVersionNumbers)
  /\ ArrGet(itemVersionNumbers, i, Undefined) = versionNumber

\* C21: right after reload({clear: true}) the sequence and the stamp array
\* are empty, isFullyLoaded is false and totalLength is -1, from every
\* reachable state and with or without preload.
C21_ClearResetsEverything ==
  \A withPreload \in BOOLEAN :
    LET s == reload(State, TRUE, withPreload)
    IN /\ s.items = <<>>
       /\ s.itemVersionNumbers = <<>>
       /\ ~s.isFullyLoaded
       /\ s.totalLength = UnknownLength

\* C22: reload with preload, from every reachable state and for either value
\* of clear, sets isReloading and invokes the provider for page 0 at the new
\* version before it returns.
C22_ReloadPreloadsPageZero ==
  \A clear \in BOOLEAN :
    LET s == reload(State, clear, TRUE)
    IN /\ s.isReloading
       /\ s.providerCalls[0] = providerCalls[0] + 1
       /\ \E r \in s.inflight \ inflight :
            r.pageIndex = 0 /\ r.version = versionNumber + 1

\* C23 (returned value): getItemAtIndex on a slot that is not fresh returns
\* undefined.
C23_StaleSlotReadsUndefined ==
  \A i \in ReadIndices :
    ~Fresh(i) => getItemAtIndex(State, i).ret = RetItem(NoItem)

\* C24: getItemAtIndex on a slot within the length whose stamp equals
\* versionNumber returns the stored value and changes nothing: no provider
\* call, no field of the list.
C24_FreshReadIsPure ==
  \A i \in ReadIndices :
    Fresh(i) =>
      getItemAtIndex(State, i) = [State EXCEPT !.ret = RetItem(items[i + 1])]

\* a slot loaded after a reload is fresh at the new version
C24_Witness ==
  /\ versionNumber = InitialVersion + 1
  /\ Fresh(0)
  /\ items[1] = Item(InitialVersion + 1, 0)
  /\ inflight = {}

\* C28: reload without clear leaves the sequence and the stamps as they
\* are; after it every stored stamp is below the new versionNumber, and
\* getItemAtIndex on any previously loaded index triggers a load of its page
\* (or finds the load the preload has just started).
C28_ReloadKeepsContentsStale ==
  \A withPreload \in BOOLEAN :
    LET s == reload(State, FALSE, withPreload)
    IN /\ s.items = items
       /\ s.itemVersionNumbers = itemVersionNumbers
       /\ \A k \in 1..Len(s.itemVersionNumbers) :
            s.itemVersionNumbers[k] < s.versionNumber
       /\ \A i \in 0..(Len(items) - 1) :
            ArrGet(itemVersionNumbers, i, Undefined) # Undefined =>
              LET p == i \div pageSize
                  s2 == getItemAtIndex(s, i)
              IN \/ s2.providerCalls[p] = s.providerCalls[p] + 1
                 \/ /\ withPreload
                    /\ p = 0
                    /\ s.providerCalls[p] = providerCalls[p] + 1

\* a loaded list after a reload without clear: the item is still there, with
\* the stamp of the older version
C28_Witness ==
  /\ versionNumber = InitialVersion + 1
  /\ isReloading
  /\ items = <<Item(InitialVersion, 0)>>
  /\ itemVersionNumbers = <<InitialVersion>>
  /\ inflight = {}

\* what the success handler must have written for request r
PageWritten(r) ==
  LET start == r.pageIndex * pageSize
      n == ResponseLength(State, r.pageIndex)
  IN /\ Len(items') >= start + n
     /\ Len(itemVersionNumbers') >= start + n
     /\ \A j \in 0..(n - 1) :
          /\ items'[start + j + 1] = Item(r.version, start + j)
          /\ itemVersionNumbers'[start + j + 1] = r.version
     /\ \A k \in 1..Len(items) :
          (k - 1 < start \/ k - 1 >= start + n) => items'[k] = items[k]
     /\ \A k \in 1..Len(itemVersionNumbers) :
          (k - 1 < start \/ k - 1 >= start + n) =>
            itemVersionNumbers'[k] = itemVersionNumbers[k]

C30_LoadingOnlyWhileOutstanding ==
  isLoading => inflight # {}

\* ------------------------------------ claims on the cache's frame (repository)
\* C25: after a deleteAll request has completed successfully, whether with
\* true or with a list of deleted items, the cache maps no id.
C25_DeleteAllEmptiesCache ==
  [][Completed("deleteAll") => \A id \in Ids : modelObjectCache'[id] = NoRef]_vars

\* C26: cacheItem of a candidate without id returns the candidate itself (a
\* new object with the candidate's fields), leaves the cache map and every
\* existing object unchanged.
C26_NoIdPassesThrough ==
  \A c \in Candidates(NoId) :
    LET s == cacheItem(RepoState, c)
    IN /\ s.modelObjectCache = modelObjectCache
       /\ s.ret = Len(heap) + 1
       /\ s.heap = Append(heap, NewObject(NoId, c.fields))

\* a list response with one entry without id was delivered: the entry is in
\* the list and the cache is still empty
C26_Witness ==
  /\ delivered = <<1>>
  /\ heap[1].id = NoId
  /\ \A id \in Ids : modelObjectCache[id] = NoRef
  /\ requestCount = 1

\* C27: uncacheItem of an object without id, or whose id the cache does not
\* map, changes nothing; uncacheItem of an object with a mapped id removes
\* that mapping and changes nothing else.
C27_ForgetRemovesOneMapping ==
  \A id \in Ids \cup {NoId} :
    LET s == uncacheItem(RepoState, NewObject(id, [f \in FieldNames |-> Absent]))
    IN IF id = NoId \/ modelObjectCache[id] = NoRef
         THEN s = RepoState
         ELSE s = [RepoState EXCEPT !.modelObjectCache[id] = NoRef]

\* two objects were registered and the one with id "1" has been deleted
C27_Witness ==
  /\ Len(heap) = 2
  /\ \E k \in DOMAIN heap : heap[k].id = "1"
  /\ modelObjectCache["1"] = NoRef
  /\ modelObjectCache["2"] # NoRef
  /\ requests = {}
  /\ requestCount = 2

\* C31: after reload({clear: true}) every page fetch still in flight belongs
\* to a cancelled context and an older version, and the successful
\* completion of such a fetch, whenever it arrives, changes no slot, no
\* stamp, and neither totalLength nor metadata.
C31_CancelledSuccessWritesNothing ==
  /\ [][\A withPreload \in BOOLEAN :
          Reload(TRUE, withPreload) =>
            \A r \in inflight : /\ r.context < pageLoadContext'
                                /\ r.version < versionNumber']_vars
  /\ [][\A r \in inflight :
          (Resolve(r) /\ r.context < pageLoadContext
                      /\ r.version < versionNumber) =>
            UNCHANGED <<items, itemVersionNumbers, totalLength, metadata>>]_vars

\* the response to a fetch of page 0 has arrived after reload({clear: true})
\* and was dropped (a failure would have set error)
C31_Witness ==
  /\ serverLength = 1
  /\ providerCalls[0] = 1
  /\ inflight = {}
  /\ versionNumber = InitialVersion + 1
  /\ pageLoadContext = InitialContext + 1
  /\ isLoading
  /\ error = Undefined
  /\ items = <<>>
  /\ totalLength = UnknownLength

\* the value in slot i was delivered by the response to a request issued at
\* version v (the provider marks what it serves with the request's version)
DeliveredAt(i, v) ==
  /\ i < Len(items)
  /\ items[i + 1] # NoItem
  /\ items[i + 1][1] = v

\* C32: every stored stamp is at most versionNumber, and every slot of the
\* sequence whose stamp equals versionNumber holds a value delivered by the
\* response to a request issued at versionNumber.
C32_StampsBoundedFreshDelivered ==
  /\ \A k \in 1..Len(itemVersionNumbers) :
       itemVersionNumbers[k] <= versionNumber
  /\ \A k \in 1..Min(Len(items), Len(itemVersionNumbers)) :
       itemVersionNumbers[k] = versionNumber =>
         DeliveredAt(k - 1, versionNumber)

\* C34: the stamp array is parallel to the sequence: both have the same
\* length, and the stamp at index i is the stamp of the value at index i
\* (the version of the request that delivered it; none for an empty slot).
C34_StampsParallel ==
  /\ Len(itemVersionNumbers) = Len(items)
  /\ \A k \in 1..Min(Len(items), Len(itemVersionNumbers)) :
       IF items[k] = NoItem
         THEN itemVersionNumbers[k] = Undefined
         ELSE itemVersionNumbers[k] = items[k][1]

\* C33: once totalLength is known, the sequence is never longer than
\* totalLength.
C33_LengthWithinTotal ==
  totalLength # UnknownLength => Len(items) <= totalLength

\* C35: the failure of a page load changes nothing of the list but error,
\* isLoading, isReloading and the in-flight counter: the sequence and its
\* length, the stamps, totalLength, metadata and isFullyLoaded stay as they
\* were (and so do the version, the dates and the page bookkeeping).
C35_FailureKeepsList ==
  [][\A r \in inflight :
       Reject(r) =>
         UNCHANGED <<items, itemVersionNumbers, totalLength, metadata,
                     isFullyLoaded, versionNumber, loadedDate,
                     fullyLoadedDate, pagePromises,
                     loadingPageVersionNumbers, pageLoadContext>>]_vars

\* the refetch of a loaded page after a reload has failed
C35_Witness ==
  /\ items = <<Item(InitialVersion, 0)>>
  /\ itemVersionNumbers = <<InitialVersion>>
  /\ totalLength = 1
  /\ versionNumber = InitialVersion + 1
  /\ error = InitialVersion + 1
  /\ inflight = {}

\* C36: when the transport call of delete(item) succeeds, the mapping for the
\* item's id is gone afterwards and no other mapping has changed; when it
\* fails, the cache is as it was.
C36_DeleteForgetsIffSucceeded ==
  [][\A r \in requests :
       (r.kind = "delete" /\ r \notin requests') =>
         LET id == heap[r.cachedItem].id
         IN IF failed' = failed
              THEN /\ id # NoId => modelObjectCache'[id] = NoRef
                   /\ \A other \in Ids \ {id} :
                        modelObjectCache'[other] = modelObjectCache[other]
              ELSE modelObjectCache' = modelObjectCache]_vars

\* an object registered by reload(item) has been deleted successfully
C36_Witness ==
  /\ Len(heap) = 1
  /\ heap[1].id = "1"
  /\ modelObjectCache["1"] = NoRef
  /\ requestCount = 2
  /\ failed = {}
  /\ \A r \in requests : r.kind = "getById"

\* C37: the in-flight page counter loadingPageCount is never negative.
C37_CounterNeverNegative ==
  loadingPageCount >= 0

\* C38: when every provider call completes, a list that reload({preload:
\* true}) has put into reloading eventually is neither reloading nor loading
\* (under SpecReload isReloading is set by reload({preload: true}) alone).
C38_ReloadingEnds ==
  isReloading ~> (~isReloading /\ ~isLoading)

\* C39: preload() called while the sequence is empty and no page fetch is in
\* flight invokes the provider for page 0.
C39_PreloadOfEmptyListFetches ==
  (items = <<>> /\ inflight = {}) =>
    preload(State).providerCalls[0] = providerCalls[0] + 1

\* reload(item) registers an item whose id is not in the cache
ReloadRegisters ==
  /\ \A item \in DOMAIN heap :
       (heap[item].id # NoId /\ modelObjectCache[heap[item].id] = NoRef
          /\ ReloadItem(item)) =>
         modelObjectCache'[heap[item].id] = item
  /\ \A id \in Ids :
       (modelObjectCache[id] = NoRef /\ ReloadNewItem(id)) =>
         modelObjectCache'[id] = Len(heap')

\* the getById request r was made by reload(item) with item as the cached
\* object, and reload(item) is awaiting it
ReloadFetches(r, item) ==
  /\ r.kind = "getById"
  /\ r.cachedItem = item
  /\ item \in r.waiters

\* when r succeeds with outcome, the fetched fields are merged into item,
\* the cache maps the id to item, and item is the result
MergedIntoItem(r, item, outcome) ==
  LET s == getByIdLoaded(RepoState, r, outcome)
  IN /\ Len(s.heap) = Len(heap)
     /\ \A f \in FieldNames :
          s.heap[item].fields[f] =
            IF outcome.fields[f] # Absent THEN outcome.fields[f]
            ELSE heap[item].fields[f]
     /\ s.modelObjectCache[r.id] = item
     /\ s.ret = item

====
